---- MODULE Spec2Model ----
(***************************************************************************)
(* Model of core/src/blocks/block.rs: the BlockType string conversions,    *)
(* parse_pair's handling of multiline fragments, find_variables and        *)
(* replace_variables_in_string.                                            *)
(*                                                                         *)
(* A Rust string is modelled as the sequence of its characters, each       *)
(* character a one-character TLA+ string.  A serde_json Value is a record  *)
(* [t, s, o]: t its kind, s the characters of a String, o the map of an    *)
(* Object (keys are character sequences; the map is <<>> when empty).      *)
(***************************************************************************)
EXTENDS Integers, Sequences, FiniteSets, TLC

VARIABLES pc, text, state, result, rerun, variables, pair, outcome, kind, ident, parsed

vars == <<pc, text, state, result, rerun, variables, pair, outcome, kind, ident, parsed>>

(***************************************************************************)
(* Bounds of the explored inputs.                                          *)
(***************************************************************************)
MaxPieces == 3

MaxFindPieces == 5

MaxBody == 4

(***************************************************************************)
(* Characters and the regex's character classes.                           *)
(***************************************************************************)
Upper ==
    {"A","B","C","D","E","F","G","H","I","J","K","L","M",
     "N","O","P","Q","R","S","T","U","V","W","X","Y","Z"}

Lower ==
    {"a","b","c","d","e","f","g","h","i","j","k","l","m",
     "n","o","p","q","r","s","t","u","v","w","x","y","z"}

Digit == {"0","1","2","3","4","5","6","7","8","9"}

\* (?P<name>[A-Z0-9_]+)
NameClass == Upper \cup Digit \cup {"_"}

\* (?P<key>[a-zA-Z0-9_\.]+)
KeyClass == Lower \cup Upper \cup Digit \cup {"_", "."}

\* The end (exclusive) of the longest run of characters of class cls that
\* starts at position i of s: a greedy repetition of the regex.
RECURSIVE run_end(_, _, _)
run_end(s, i, cls) ==
    IF i <= Len(s) /\ s[i] \in cls THEN run_end(s, i + 1, cls) ELSE i

\* Whether sub occurs in s at position i.
occurs_at(s, sub, i) ==
    /\ i + Len(sub) - 1 <= Len(s)
    /\ \A j \in 1..Len(sub) : s[i + j - 1] = sub[j]

(***************************************************************************)
(* find_variables.                                                         *)
(***************************************************************************)
NoMatch == [found |-> FALSE, name |-> <<>>, key |-> <<>>, next |-> 0]

\* One attempt of RE at position i: \$\{ name \. key \}.  Neither "." nor
\* "}" belongs to the class of the run before it, so the greedy run is the
\* only way the regex can match from i.
captures_at_nodollar(s, i) ==
    IF ~occurs_at(s, <<"{">>, i) THEN NoMatch
    ELSE LET n0 == i + 1
             n1 == run_end(s, n0, NameClass)
         IN IF n1 = n0 \/ ~occurs_at(s, <<".">>, n1) THEN NoMatch
            ELSE LET k0 == n1 + 1
                     k1 == run_end(s, k0, KeyClass)
                 IN IF k1 = k0 \/ ~occurs_at(s, <<"}">>, k1) THEN NoMatch
                    ELSE [found |-> TRUE,
                          name |-> SubSeq(s, n0, n1 - 1),
                          key |-> SubSeq(s, k0, k1 - 1),
                          next |-> k1 + 1]

captures_at_nodots(s, i) ==
    IF ~occurs_at(s, <<"$", "{">>, i) THEN NoMatch
    ELSE LET n0 == i + 2
             n1 == run_end(s, n0, NameClass)
         IN IF n1 = n0 \/ ~occurs_at(s, <<".">>, n1) THEN NoMatch
            ELSE LET k0 == n1 + 1
                     k1 == run_end(s, k0, KeyClass \ {"."})
                 IN IF k1 = k0 \/ ~occurs_at(s, <<"}">>, k1) THEN NoMatch
                    ELSE [found |-> TRUE,
                          name |-> SubSeq(s, n0, n1 - 1),
                          key |-> SubSeq(s, k0, k1 - 1),
                          next |-> k1 + 1]

captures_at(s, i) ==
    IF ~occurs_at(s, <<"$", "{">>, i) THEN NoMatch
    ELSE LET n0 == i + 2
             n1 == run_end(s, n0, NameClass)
         IN IF n1 = n0 \/ ~occurs_at(s, <<".">>, n1) THEN NoMatch
            ELSE LET k0 == n1 + 1
                     k1 == run_end(s, k0, KeyClass)
                 IN IF k1 = k0 \/ ~occurs_at(s, <<"}">>, k1) THEN NoMatch
                    ELSE [found |-> TRUE,
                          name |-> SubSeq(s, n0, n1 - 1),
                          key |-> SubSeq(s, k0, k1 - 1),
                          next |-> k1 + 1]

\* RE.captures_iter(text): the leftmost match, then the search resumes after
\* the end of that match.
RECURSIVE captures_iter(_, _)
captures_iter(s, i) ==
    IF i > Len(s) THEN <<>>
    ELSE LET c == captures_at(s, i)
         IN IF c.found
            THEN <<<<c.name, c.key>>>> \o captures_iter(s, c.next)
            ELSE captures_iter(s, i + 1)

find_variables(s) == captures_iter(s, 1)

(***************************************************************************)
(* replace_variables_in_string.                                            *)
(***************************************************************************)
\* str::replace(from, to): every non-overlapping occurrence, left to right.
RECURSIVE replace_from(_, _, _, _)
replace_from(s, from, to, i) ==
    IF i > Len(s) THEN <<>>
    ELSE IF occurs_at(s, from, i)
         THEN to \o replace_from(s, from, to, i + Len(from))
         ELSE <<s[i]>> \o replace_from(s, from, to, i + 1)

replace(s, from, to) == replace_from(s, from, to, 1)

\* format!("${{{}.{}}}", name, key)
format_token(name, key) == <<"$", "{">> \o name \o <<".">> \o key \o <<"}">>

is_object(v) == v.t = "Object"

is_string(v) == v.t = "String"

Ok(s) == [ok |-> TRUE, value |-> s, err |-> "", name |-> <<>>, key |-> <<>>]

Err(e, name, key) == [ok |-> FALSE, value |-> <<>>, err |-> e, name |-> name, key |-> key]

\* The checks of one variable with a value that is not a string read as the
\* empty string (as_str().unwrap_or_default()).
check_variable_defaulting(st, name, key) ==
    IF name \notin DOMAIN st THEN Err("not found", name, <<>>)
    ELSE IF ~is_object(st[name]) THEN Err("is not an object", name, <<>>)
    ELSE IF key \notin DOMAIN st[name].o THEN Err("not present", name, key)
    ELSE Ok(st[name].o[key].s)

\* The checks of one variable, in the closure's order; Ok carries the
\* value output[key].as_str().
check_variable(st, name, key) ==
    IF name \notin DOMAIN st THEN Err("not found", name, <<>>)
    ELSE IF ~is_object(st[name]) THEN Err("is not an object", name, <<>>)
    ELSE IF key \notin DOMAIN st[name].o THEN Err("not present", name, key)
    ELSE IF ~is_string(st[name].o[key]) THEN Err("is not a string", name, key)
    ELSE Ok(st[name].o[key].s)

\* The closure run over every variable, the last Err returned.
RECURSIVE resolve_from_last_error(_, _, _, _)
resolve_from_last_error(vs, i, res, st) ==
    IF i > Len(vs) THEN Ok(res)
    ELSE LET c == check_variable(st, vs[i][1], vs[i][2])
             rest == resolve_from_last_error(
                         vs, i + 1,
                         IF c.ok
                         THEN replace(res, format_token(vs[i][1], vs[i][2]), c.value)
                         ELSE res,
                         st)
         IN IF c.ok \/ ~rest.ok THEN rest ELSE c

\* The closure mapped over the variables and collected into a Result: the
\* first Err ends the iteration and is returned.
RECURSIVE resolve_from(_, _, _, _)
resolve_from(vs, i, res, st) ==
    IF i > Len(vs) THEN Ok(res)
    ELSE LET c == check_variable(st, vs[i][1], vs[i][2])
         IN IF ~c.ok THEN c
            ELSE resolve_from(vs, i + 1,
                              replace(res, format_token(vs[i][1], vs[i][2]), c.value),
                              st)

replace_variables_in_string(s, st) == resolve_from(find_variables(s), 1, s, st)

(***************************************************************************)
(* BlockType and its string conversions.                                   *)
(***************************************************************************)
BlockType ==
    {"Input", "Data", "Code", "LLM", "Map", "Reduce", "Search", "Curl", "Browser"}

\* to_string with one variant written as the enum spells it.
to_string_as_spelled(k) ==
    CASE k = "Input" -> "input"
      [] k = "Data" -> "data"
      [] k = "Code" -> "code"
      [] k = "LLM" -> "LLM"
      [] k = "Map" -> "map"
      [] k = "Reduce" -> "reduce"
      [] k = "Search" -> "search"
      [] k = "Curl" -> "curl"
      [] k = "Browser" -> "browser"

to_string(k) ==
    CASE k = "Input" -> "input"
      [] k = "Data" -> "data"
      [] k = "Code" -> "code"
      [] k = "LLM" -> "llm"
      [] k = "Map" -> "map"
      [] k = "Reduce" -> "reduce"
      [] k = "Search" -> "search"
      [] k = "Curl" -> "curl"
      [] k = "Browser" -> "browser"

KindOk(k) == [ok |-> TRUE, kind |-> k]

KindErr == [ok |-> FALSE, kind |-> "Unknown BlockType"]

from_str(s) ==
    CASE s = "input" -> KindOk("Input")
      [] s = "data" -> KindOk("Data")
      [] s = "code" -> KindOk("Code")
      [] s = "llm" -> KindOk("LLM")
      [] s = "map" -> KindOk("Map")
      [] s = "reduce" -> KindOk("Reduce")
      [] s = "search" -> KindOk("Search")
      [] s = "curl" -> KindOk("Curl")
      [] s = "browser" -> KindOk("Browser")
      [] OTHER -> KindErr

(***************************************************************************)
(* parse_pair.  A pest pair is the sequence of its inner pairs, each a     *)
(* record [rule, str]; str holds the characters of pair.as_str().          *)
(***************************************************************************)
\* usize arithmetic: a subtraction below zero panics in a build with
\* overflow checks and wraps modulo 2^64 in a build without them.  The
\* model checker's integers end at 2^31 - 1, which stands for usize::MAX
\* here: the wrapped value is only ever compared with the length of a Vec,
\* which both exceed.
UsizeMax == 2147483647

wrapping_sub(a, b) == IF a >= b THEN a - b ELSE (UsizeMax - (b - a)) + 1

Min(a, b) == IF a < b THEN a ELSE b

\* chars.iter().skip(n).take(m).collect()
skip_take(chars, n, m) ==
    SubSeq(chars, n + 1, IF m >= Len(chars) THEN Len(chars) ELSE Min(Len(chars), n + m))

PairOk(k, v) == [kind |-> "ok", key |-> k, value |-> v]

PairErr == [kind |-> "err", key |-> <<>>, value |-> <<>>]

PairPanic == [kind |-> "panic", key |-> <<>>, value |-> <<>>]

\* The multiline arm taking one character too many: len - 7.
multiline_value_take7(chars) ==
    LET len == Len(chars)
    IN IF len < 4 THEN {[kind |-> "panic", value |-> <<>>]}
       ELSE IF chars[(len - 4) + 1] # "\n" THEN {[kind |-> "err", value |-> <<>>]}
       ELSE IF len < 7
            THEN {[kind |-> "panic", value |-> <<>>],
                  [kind |-> "value",
                   value |-> skip_take(chars, 4, wrapping_sub(len, 7))]}
            ELSE {[kind |-> "value", value |-> skip_take(chars, 4, len - 7)]}

\* The multiline arm without its check of the character before the fence.
multiline_value_unchecked(chars) ==
    LET len == Len(chars)
    IN IF len < 8
       THEN {[kind |-> "panic", value |-> <<>>],
             [kind |-> "value",
              value |-> skip_take(chars, 4, wrapping_sub(len, 8))]}
       ELSE {[kind |-> "value", value |-> skip_take(chars, 4, len - 8)]}

\* The Rule::multiline arm: the set of outcomes the builds can produce, an
\* element being [kind |-> "value", value |-> ...], "err" or "panic".
multiline_value(chars) ==
    LET len == Len(chars)
    IN IF len < 4 THEN {[kind |-> "panic", value |-> <<>>]}
       ELSE IF chars[(len - 4) + 1] # "\n" THEN {[kind |-> "err", value |-> <<>>]}
       ELSE IF len < 8
            THEN {[kind |-> "panic", value |-> <<>>],
                  [kind |-> "value",
                   value |-> skip_take(chars, 4, wrapping_sub(len, 8))]}
            ELSE {[kind |-> "value", value |-> skip_take(chars, 4, len - 8)]}

\* The loop over pair_pair.into_inner(): acc is [key, value], each <<>> for
\* None or <<s>> for Some(s).  The result is the set of possible outcomes.
RECURSIVE parse_inner(_, _, _)
parse_inner(inner, i, acc) ==
    IF i > Len(inner)
    THEN IF acc.key = <<>> \/ acc.value = <<>>
         THEN {PairPanic}
         ELSE {PairOk(acc.key[1], acc.value[1])}
    ELSE LET p == inner[i]
         IN CASE p.rule = "key" ->
                   parse_inner(inner, i + 1, [acc EXCEPT !.key = <<p.str>>])
              [] p.rule = "string" ->
                   parse_inner(inner, i + 1, [acc EXCEPT !.value = <<p.str>>])
              [] p.rule = "multiline" ->
                   UNION {IF m.kind = "value"
                          THEN parse_inner(inner, i + 1, [acc EXCEPT !.value = <<m.value>>])
                          ELSE IF m.kind = "err" THEN {PairErr} ELSE {PairPanic}
                          : m \in multiline_value(p.str)}
              [] OTHER -> {PairPanic}

parse_pair(pair_pair) == parse_inner(pair_pair, 1, [key |-> <<>>, value |-> <<>>])

(***************************************************************************)
(* Inputs.                                                                 *)
(***************************************************************************)
RECURSIVE Flatten(_)
Flatten(ss) == IF ss = <<>> THEN <<>> ELSE Head(ss) \o Flatten(Tail(ss))

SeqsUpTo(S, n) == UNION {[1..m -> S] : m \in 0..n}

NameA == <<"A">>

NameB == <<"B">>

KeyX == <<"x">>

KeyY == <<"y">>

TokAx == <<"$", "{", "A", ".", "x", "}">>

TokBy == <<"$", "{", "B", ".", "y", "}">>

TokAxy == <<"$", "{", "A", ".", "x", ".", "y", "}">>

\* The texts handed to replace_variables_in_string: up to MaxPieces pieces,
\* among them whole references, a reference with a dotted key, and the
\* fragments "$" and "{B.y}" that only form a reference when put together.
Pieces == {TokAx, TokBy, TokAxy, <<"$">>, <<"{", "B", ".", "y", "}">>, <<"q">>}

Texts == {Flatten(ps) : ps \in SeqsUpTo(Pieces, MaxPieces)}

\* The texts handed to find_variables alone.
FindPieces ==
    {TokAx, <<"$", "{", "A">>, <<".", "x">>, <<"}">>, <<"$">>, <<"{">>, <<"x">>}

FindTexts == {Flatten(ps) : ps \in SeqsUpTo(FindPieces, MaxFindPieces)}

Leaf(t) == [t |-> t, s |-> <<>>, o |-> <<>>]

Str(s) == [t |-> "String", s |-> s, o |-> <<>>]

Obj(o) == [t |-> "Object", s |-> <<>>, o |-> o]

NonStrings == {Leaf("Null"), Leaf("Bool"), Leaf("Number"), Leaf("Array"), Obj(<<>>)}

NonObjects == {Leaf("Null"), Leaf("Bool"), Leaf("Number"), Leaf("Array"), Str(<<"z">>)}

Absent == Leaf("Absent")

\* What state may hold for A: nothing, a non-object, or an object whose key
\* x is missing, a non-string or a string.
ValuesA ==
    {Absent} \cup NonObjects \cup {Obj(<<>>)}
    \cup {Obj([k \in {KeyX} |-> v]) : v \in NonStrings}
    \cup {Obj([k \in {KeyX} |-> Str(v)]) :
            v \in {<<"z">>, <<"$">>, TokBy, <<"{", "B", ".", "y", "}">>}}

ValuesB ==
    {Absent, Leaf("Number"), Obj(<<>>), Obj([k \in {KeyY} |-> Leaf("Number")])}
    \cup {Obj([k \in {KeyY} |-> Str(v)]) : v \in {<<"z">>, TokAx}}

\* Env.state: HashMap<String, Value>.
MkState(a, b) ==
    [n \in ({NameA : x \in {a} \ {Absent}} \cup {NameB : x \in {b} \ {Absent}})
       |-> IF n = NameA THEN a ELSE b]

States == {MkState(a, b) : a \in ValuesA, b \in ValuesB}

\* Multiline fragments as the grammar delimits them: the open fence, a
\* newline, a body in which no fence starts, the close fence.
\* The backtick character (a string literal of the module cannot hold it).
Backtick == "BACKTICK"

Fence == <<Backtick, Backtick, Backtick>>

Newline == <<"\n">>

BodyChars == {"\n", "h", "w", Backtick}

Fragment(body) == Fence \o Newline \o body \o Fence

Bodies ==
    {b \in SeqsUpTo(BodyChars, MaxBody) :
        \A i \in 1..Len(b) : ~occurs_at(b \o Fence, Fence, i)}

Keys == {<<"k">>, <<"k", "2">>}

\* The body of the example fragment of the documentation: hello, world, each
\* followed by a newline.
ExampleBody == <<"h", "e", "l", "l", "o", "\n", "w", "o", "r", "l", "d", "\n">>

PairPairs ==
    {<<[rule |-> "key", str |-> k], [rule |-> "multiline", str |-> Fragment(b)]>> :
        k \in Keys, b \in Bodies \cup {ExampleBody}}
    \cup {<<[rule |-> "key", str |-> k], [rule |-> "string", str |-> b]>> :
        k \in Keys, b \in {<<>>, <<"h">>, Fragment(<<>>)}}

Idents ==
    {to_string(k) : k \in BlockType}
    \cup {"", "foo", "Input", "LLM", "INPUT", "inputs", "block"}

(***************************************************************************)
(* State machines: each draws an input and applies the operation to it.    *)
(***************************************************************************)
NoResult == [ok |-> FALSE, value |-> <<>>, err |-> "none", name |-> <<>>, key |-> <<>>]

NoOutcome == [kind |-> "none", key |-> <<>>, value |-> <<>>]

NoKind == [ok |-> FALSE, kind |-> "none"]

\* replace_variables_in_string(text, field, env) with env.state = state.
Init ==
    /\ pc = "input"
    /\ text \in Texts
    /\ state \in States
    /\ result = NoResult /\ rerun = NoResult
    /\ variables = <<>> /\ pair = <<>> /\ outcome = NoOutcome
    /\ kind = "Input" /\ ident = "" /\ parsed = NoKind

Resolve ==
    /\ pc = "input"
    /\ result' = replace_variables_in_string(text, state)
    /\ pc' = "resolved"
    /\ UNCHANGED <<text, state, rerun, variables, pair, outcome, kind, ident, parsed>>

\* The caller resolves the output of a successful resolution once more.
ResolveAgain ==
    /\ pc = "resolved"
    /\ result.ok
    /\ rerun' = replace_variables_in_string(result.value, state)
    /\ pc' = "rerun"
    /\ UNCHANGED <<text, state, result, variables, pair, outcome, kind, ident, parsed>>

Next == Resolve \/ ResolveAgain

Spec == Init /\ [][Next]_vars

\* find_variables(text)
InitFind ==
    /\ pc = "input"
    /\ text \in FindTexts
    /\ state = <<>> /\ result = NoResult /\ rerun = NoResult
    /\ variables = <<>> /\ pair = <<>> /\ outcome = NoOutcome
    /\ kind = "Input" /\ ident = "" /\ parsed = NoKind

FindVariables ==
    /\ pc = "input"
    /\ variables' = find_variables(text)
    /\ pc' = "found"
    /\ UNCHANGED <<text, state, result, rerun, pair, outcome, kind, ident, parsed>>

NextFind == FindVariables

SpecFind == InitFind /\ [][NextFind]_vars

\* parse_pair(pair_pair)
InitParse ==
    /\ pc = "input"
    /\ pair \in PairPairs
    /\ text = <<>> /\ state = <<>> /\ result = NoResult /\ rerun = NoResult
    /\ variables = <<>> /\ outcome = NoOutcome
    /\ kind = "Input" /\ ident = "" /\ parsed = NoKind

ParsePair ==
    /\ pc = "input"
    /\ outcome' \in parse_pair(pair)
    /\ pc' = "parsed"
    /\ UNCHANGED <<text, state, result, rerun, variables, pair, kind, ident, parsed>>

NextParse == ParsePair

SpecParse == InitParse /\ [][NextParse]_vars

\* BlockType::to_string and BlockType::from_str
InitType ==
    /\ pc = "input"
    /\ kind \in BlockType
    /\ ident \in Idents
    /\ parsed = NoKind
    /\ text = <<>> /\ state = <<>> /\ result = NoResult /\ rerun = NoResult
    /\ variables = <<>> /\ pair = <<>> /\ outcome = NoOutcome

\* s.parse::<BlockType>() of an identifier read from the source text.
FromStr ==
    /\ pc = "input"
    /\ parsed' = from_str(ident)
    /\ pc' = "parsed"
    /\ UNCHANGED <<text, state, result, rerun, variables, pair, outcome, kind, ident>>

\* The kind is written out and read back.
ToStringFromStr ==
    /\ pc = "input"
    /\ ident' = to_string(kind)
    /\ parsed' = from_str(to_string(kind))
    /\ pc' = "roundtrip"
    /\ UNCHANGED <<text, state, result, rerun, variables, pair, outcome, kind>>

NextType == FromStr \/ ToStringFromStr

SpecType == InitType /\ [][NextType]_vars

(***************************************************************************)
(* Properties of BlockType.                                                *)
(***************************************************************************)
\* C7: for each of the 9 BlockType variants k, from_str(to_string(k)) succeeds
\* and returns k; to_string gives the 9 variants 9 pairwise distinct
\* identifiers, exactly input, data, code, llm, map, reduce, search, curl,
\* browser.
C7_RoundTrip ==
    /\ pc = "roundtrip" => parsed = [ok |-> TRUE, kind |-> kind]
    /\ \A k1, k2 \in BlockType : to_string(k1) = to_string(k2) => k1 = k2
    /\ {to_string(k) : k \in BlockType} =
         {"input", "data", "code", "llm", "map", "reduce", "search", "curl", "browser"}
    /\ Cardinality(BlockType) = 9

C7_Witness ==
    pc = "roundtrip" /\ kind = "LLM" /\ ident = "llm" /\ parsed.ok

(***************************************************************************)
(* Properties of parse_pair.                                               *)
(***************************************************************************)
IsMultiline == Len(pair) = 2 /\ pair[2].rule = "multiline"

Chars == pair[2].str

\* The fragment is: open fence, newline, content, newline, close fence.
WellFormed(f) ==
    /\ Len(f) >= 8
    /\ SubSeq(f, 1, 4) = Fence \o Newline
    /\ SubSeq(f, Len(f) - 3, Len(f)) = Newline \o Fence

\* The content of a well-formed fragment: what lies between the two newlines.
Content(f) == SubSeq(f, 5, Len(f) - 4)

\* C2, as claimed: for a well-formed multiline fragment parse_pair returns as
\* value the content followed by the newline that precedes the close fence.
C2_ValueKeepsNewline ==
    (pc = "parsed" /\ IsMultiline /\ WellFormed(Chars))
        => outcome = PairOk(pair[1].str, Content(Chars) \o Newline)

\* C2, amended: for a well-formed multiline fragment parse_pair returns as
\* value the content between the newline after the open fence and the
\* newline before the close fence, both newlines excluded.
C2_ValueIsContent ==
    (pc = "parsed" /\ IsMultiline /\ WellFormed(Chars))
        => outcome = PairOk(pair[1].str, Content(Chars))

C2_Witness ==
    /\ pc = "parsed" /\ IsMultiline
    /\ Chars = Fragment(ExampleBody)
    /\ outcome.kind = "ok"
    /\ outcome.value = <<"h", "e", "l", "l", "o", "\n", "w", "o", "r", "l", "d">>

\* C9: for a multiline fragment whose close fence is not immediately preceded
\* by a newline, parse_pair returns a parse error and no pair.
C9_MissingNewlineIsError ==
    (pc = "parsed" /\ IsMultiline /\ Chars[Len(Chars) - 3] # "\n")
        => outcome = PairErr

C9_Witness ==
    /\ pc = "parsed" /\ IsMultiline
    /\ Chars = Fragment(<<"h", "\n", "w">>)
    /\ outcome.kind = "err"

\* C10: for every multiline fragment parse_pair returns a pair or an error,
\* and neither the index len - 4 nor the length len - 8 that it computes goes
\* below zero.
C10_NoUnderflow ==
    (pc = "parsed" /\ IsMultiline)
        => /\ outcome.kind \in {"ok", "err"}
           /\ Len(Chars) - 4 >= 0
           /\ outcome.kind = "ok" => Len(Chars) - 8 >= 0

(***************************************************************************)
(* References, stated without the scanner: a reference is a substring      *)
(* "${" NAME "." KEY "}", NAME over [A-Z0-9_], KEY over [a-zA-Z0-9_.],     *)
(* both non-empty.                                                         *)
(***************************************************************************)
DotOf(t) ==
    {d \in 4..(Len(t) - 2) :
        /\ t[d] = "."
        /\ \A i \in 3..(d - 1) : t[i] \in NameClass
        /\ \A i \in (d + 1)..(Len(t) - 1) : t[i] \in KeyClass}

IsToken(t) ==
    /\ Len(t) >= 6
    /\ t[1] = "$" /\ t[2] = "{" /\ t[Len(t)] = "}"
    /\ DotOf(t) # {}

TokenName(t) == SubSeq(t, 3, (CHOOSE d \in DotOf(t) : TRUE) - 1)

TokenKey(t) == SubSeq(t, (CHOOSE d \in DotOf(t) : TRUE) + 1, Len(t) - 1)

\* The ends of the references that start at position i of s.
TokenEnds(s, i) ==
    {e \in i..Len(s) : s[i] = "$" /\ s[e] = "}" /\ IsToken(SubSeq(s, i, e))}

Occurrences(s) == {i \in 1..Len(s) : TokenEnds(s, i) # {}}

HasToken(s) == Occurrences(s) # {}

\* The (NAME, KEY) of every occurrence, in the order of the occurrences:
\* every position of the text is looked at, whether or not an earlier
\* occurrence covers it.
RECURSIVE RefsFrom(_, _)
RefsFrom(s, i) ==
    IF i > Len(s) THEN <<>>
    ELSE LET E == TokenEnds(s, i)
         IN IF E = {} THEN RefsFrom(s, i + 1)
            ELSE LET t == SubSeq(s, i, CHOOSE e \in E : TRUE)
                 IN <<<<TokenName(t), TokenKey(t)>>>> \o RefsFrom(s, i + 1)

Refs(s) == RefsFrom(s, 1)

\* state[NAME] is an object and state[NAME][KEY] is a string.
Valid(st, r) ==
    /\ r[1] \in DOMAIN st
    /\ st[r[1]].t = "Object"
    /\ r[2] \in DOMAIN st[r[1]].o
    /\ st[r[1]].o[r[2]].t = "String"

\* The error the documentation assigns to an invalid reference.
ErrorOf(st, r) ==
    IF r[1] \notin DOMAIN st THEN "not found"
    ELSE IF st[r[1]].t # "Object" THEN "is not an object"
    ELSE IF r[2] \notin DOMAIN st[r[1]].o THEN "not present"
    ELSE "is not a string"

\* The text with every reference replaced by its value in one pass, every
\* other character kept.
RECURSIVE Substituted(_, _, _)
Substituted(s, i, st) ==
    IF i > Len(s) THEN <<>>
    ELSE IF TokenEnds(s, i) # {}
         THEN LET e == CHOOSE x \in TokenEnds(s, i) : TRUE
                  t == SubSeq(s, i, e)
              IN st[TokenName(t)].o[TokenKey(t)].s \o Substituted(s, e + 1, st)
         ELSE <<s[i]>> \o Substituted(s, i + 1, st)

(***************************************************************************)
(* Properties of find_variables.                                           *)
(***************************************************************************)
\* C8: find_variables returns one (NAME, KEY) entry per occurrence of a
\* reference in the text, in left-to-right order of occurrence, duplicates
\* kept as separate entries, and the empty sequence when there is none.
C8_OnePerOccurrence ==
    pc = "found" =>
        /\ variables = Refs(text)
        /\ Len(variables) = Cardinality(Occurrences(text))

C8_Witness ==
    /\ pc = "found"
    /\ text = TokAx \o TokAx
    /\ variables = <<<<NameA, KeyX>>, <<NameA, KeyX>>>>

(***************************************************************************)
(* Properties of replace_variables_in_string.                              *)
(***************************************************************************)
AllValid ==
    LET rs == Refs(text)
    IN \A i \in 1..Len(rs) : Valid(state, rs[i])

\* The first invalid reference of the text, in order of appearance.
FirstInvalid ==
    LET rs == Refs(text)
    IN rs[CHOOSE i \in 1..Len(rs) :
              /\ ~Valid(state, rs[i])
              /\ \A j \in 1..(i - 1) : Valid(state, rs[j])]

\* C1: when every reference of the text is valid, replace_variables_in_string
\* succeeds and returns the text with every occurrence of every reference
\* replaced by its value, all other characters unchanged.
C1_EveryReferenceReplaced ==
    (pc = "resolved" /\ AllValid) => result = Ok(Substituted(text, 1, state))

\* C3: for a text with a single reference, resolution fails with the error of
\* the first condition that holds (not found, is not an object, not present,
\* is not a string) and succeeds when none holds; no default is substituted.
C3_SingleReferenceError ==
    (pc = "resolved" /\ Len(Refs(text)) = 1) =>
        LET r == Refs(text)[1]
        IN IF Valid(state, r)
           THEN result.ok
           ELSE /\ ~result.ok
                /\ result.value = <<>>
                /\ result.err = ErrorOf(state, r)
                /\ result.name = r[1]

C3_Witness ==
    /\ pc = "resolved"
    /\ Len(Refs(text)) = 1
    /\ Refs(text)[1] = <<NameA, KeyX>>
    /\ NameA \in DOMAIN state
    /\ state[NameA] = Obj([k \in {KeyX} |-> Leaf("Null")])
    /\ result.err = "is not a string"

\* C4: when at least one reference of the text is invalid, the result is an
\* error and no string, and the error is that of the first invalid reference
\* in left-to-right order, valid references before it notwithstanding.
C4_FirstInvalidReference ==
    (pc = "resolved" /\ ~AllValid) =>
        LET r == FirstInvalid
        IN /\ ~result.ok
           /\ result.value = <<>>
           /\ result.err = ErrorOf(state, r)
           /\ result.name = r[1]

C4_Witness ==
    /\ pc = "resolved"
    /\ LET rs == Refs(text)
       IN /\ Len(rs) = 3
          /\ Valid(state, rs[1])
          /\ ~Valid(state, rs[2])
          /\ ~Valid(state, rs[3])
          /\ ErrorOf(state, rs[2]) # ErrorOf(state, rs[3])
          /\ result.err = ErrorOf(state, rs[2])

\* The values substituted into the text by a successful resolution.
SubstitutedValues ==
    LET rs == Refs(text)
    IN {state[rs[i][1]].o[rs[i][2]].s : i \in 1..Len(rs)}

\* C5, as claimed: when resolution succeeds with r and no substituted value
\* contains a reference, resolving r again succeeds and returns r.
C5_IdempotentOnCleanValues ==
    (pc = "rerun" /\ \A v \in SubstitutedValues : ~HasToken(v))
        => rerun = Ok(result.value)

\* C5, amended: when resolution succeeds with r, no substituted value
\* contains a reference and r itself contains no reference, resolving r again
\* succeeds and returns r.
C5_IdempotentOnCleanResult ==
    (/\ pc = "rerun"
     /\ \A v \in SubstitutedValues : ~HasToken(v)
     /\ ~HasToken(result.value))
        => rerun = Ok(result.value)

C5_Witness ==
    /\ pc = "rerun"
    /\ Len(Refs(text)) >= 2
    /\ \A v \in SubstitutedValues : ~HasToken(v)
    /\ ~HasToken(result.value)
    /\ result.value # text
    /\ rerun = Ok(result.value)

\* The replacements of the pairs of ps applied to s one after the other.
RECURSIVE ApplyInOrder(_, _, _)
ApplyInOrder(s, ps, st) ==
    IF ps = <<>> THEN s
    ELSE ApplyInOrder(replace(s, format_token(Head(ps)[1], Head(ps)[2]),
                              st[Head(ps)[1]].o[Head(ps)[2]].s),
                      Tail(ps), st)

\* Every order of the distinct pairs referenced by the text.
Orders ==
    LET rs == Refs(text)
        D == {rs[i] : i \in 1..Len(rs)}
    IN {q \in [1..Cardinality(D) -> D] : \A i, j \in DOMAIN q : q[i] = q[j] => i = j}

\* C6: when every reference of the text is valid, applying the replacements of
\* the distinct pairs in any order gives the string the left-to-right order of
\* replace_variables_in_string gives.
C6_OrderIndependent ==
    (pc = "resolved" /\ AllValid) =>
        /\ result.ok
        /\ \A q \in Orders : ApplyInOrder(text, q, state) = result.value

====
